---- MODULE Spec2Model ----
(***************************************************************************)
(* The Vizportal authentication handshake of tableau-tools:                *)
(* class VizportalAuth of make-me-a-friggin-pat/make_me_a_friggin_pat.py   *)
(* (impl = "pat") and of make-me-a-friggin-pat/vizportal_auth.py           *)
(* (impl = "auth").  One instance of the class, its requests.Session       *)
(* cookie jar, the callers running its methods statement by statement,     *)
(* and a server whose responses are drawn from bounded sets.               *)
(***************************************************************************)
EXTENDS Integers, Sequences, FiniteSets, TLC

(***************************************************************************)
(* Bounds of the model.                                                    *)
(***************************************************************************)
\* how many distinct key pairs the server can hand out
NumKeys == 2
\* how many distinct non-empty values the server uses for each cookie
NumCookieVals == 2

(***************************************************************************)
(* Python / JSON values.  A value is a record [t, s, v]: t is the type     *)
(* ("none" for None / JSON null, "str", "int"), s the characters of a str, *)
(* v the number of an int.  Missing marks a key absent from a JSON object  *)
(* or a cookie absent from a response; it is never stored by the program.  *)
(***************************************************************************)
None == [t |-> "none", s |-> <<>>, v |-> 0]
Missing == [t |-> "missing", s |-> <<>>, v |-> 0]
Str(chars) == [t |-> "str", s |-> chars, v |-> 0]
Int_(k) == [t |-> "int", s |-> <<>>, v |-> k]

\* Python truthiness, as used by `not wg`, `if xsrf_token:`, `if not token:`
Truthy(x) ==
    \/ x.t = "str" /\ x.s # <<>>
    \/ x.t = "int" /\ x.v # 0

(***************************************************************************)
(* Text is a sequence of characters.  int(s, 16) reads a str digit by      *)
(* digit and raises ValueError on an empty str or a character that is no   *)
(* hexadecimal digit (signs, "0x", "_" and blanks are outside the model).  *)
(***************************************************************************)
HexChars == <<"0", "1", "2", "3", "4", "5", "6", "7",
              "8", "9", "a", "b", "c", "d", "e", "f">>

IsHexChar(ch) == \E i \in 1..16 : HexChars[i] = ch

HexDigit(ch) == (CHOOSE i \in 1..16 : HexChars[i] = ch) - 1

RECURSIVE HexValue(_)
HexValue(chars) ==
    IF chars = <<>> THEN 0
    ELSE 16 * HexValue(SubSeq(chars, 1, Len(chars) - 1))
         + HexDigit(chars[Len(chars)])

IsHexText(chars) ==
    /\ chars # <<>>
    /\ \A i \in 1..Len(chars) : IsHexChar(chars[i])

\* the server's rendering of a number as lowercase hexadecimal text
RECURSIVE ToHex(_)
ToHex(k) ==
    IF k < 16 THEN <<HexChars[k + 1]>>
    ELSE Append(ToHex(k \div 16), HexChars[(k % 16) + 1])

RECURSIVE Gcd(_, _)
Gcd(a, b) == IF b = 0 THEN a ELSE Gcd(b, a % b)

(***************************************************************************)
(* The server.  It owns NumKeys RSA key pairs, each with its keyId; a      *)
(* generatePublicKey response is built from one of them, each of n and e   *)
(* rendered as hexadecimal text or as a JSON number, and any one part of   *)
(* the body may be absent.                                                 *)
(***************************************************************************)
Keys == 1..NumKeys

KeyTable ==
    <<[keyId |-> <<"k", "1">>, N |-> 33, E |-> 17],
      [keyId |-> <<"k", "2">>, N |-> 55, E |-> 27],
      [keyId |-> <<"k", "3">>, N |-> 65, E |-> 11],
      [keyId |-> <<"k", "4">>, N |-> 77, E |-> 13]>>

\* the server sends the modulus as hexadecimal text, the exponent as
\* hexadecimal text or as a JSON number
FormatsN == {"hex"}
FormatsE == {"hex", "int"}

Render(k, fmt) == IF fmt = "hex" THEN Str(ToHex(k)) ELSE Int_(k)

\* what a generatePublicKey body may lack
KeyDefects == {"none", "result", "keyId", "n", "e"}

KeyBody(i, fn, fe, defect) ==
    [result |-> defect # "result",
     keyId  |-> IF defect \in {"result", "keyId"} THEN Missing
                ELSE Str(KeyTable[i].keyId),
     n      |-> IF defect \in {"result", "n"} THEN Missing
                ELSE Render(KeyTable[i].N, fn),
     e      |-> IF defect \in {"result", "e"} THEN Missing
                ELSE Render(KeyTable[i].E, fe),
     refreshToken |-> Missing]

KeyBodies ==
    {KeyBody(i, fn, fe, d) : i \in Keys, fn \in FormatsN, fe \in FormatsE,
                             d \in KeyDefects}

\* a complete body: the server answered the key fetch correctly
GoodKeyBody(b) == b.result /\ b.keyId # Missing /\ b.n # Missing /\ b.e # Missing

NoBody ==
    [result |-> FALSE, keyId |-> Missing, n |-> Missing, e |-> Missing,
     refreshToken |-> Missing]

Tokens == {Str(<<"t", "1">>), Str(<<"t", "2">>)}

\* createPersonalAccessToken bodies: no result, no refreshToken, an empty
\* one, or a token
PatBodies ==
    {[NoBody EXCEPT !.result = r, !.refreshToken = t] :
        r \in {TRUE}, t \in {Missing, Str(<<>>)} \cup Tokens}
    \cup {NoBody}

CookieVals(prefix) == {Str(<<prefix, HexChars[j + 1]>>) : j \in 1..NumCookieVals}

\* what a response does to one cookie: nothing, or set it (possibly to "")
SetCookie(prefix) == {Missing, Str(<<>>)} \cup CookieVals(prefix)

\* status 0: the request failed without a response (ConnectionError)
NoAnswer == 0
LoginStatuses == {NoAnswer, 200, 304, 401, 403, 500}
KeyStatuses == {NoAnswer, 200, 500}
PatStatuses == {NoAnswer, 200, 403}

Response(status, wg, xsrf, body) ==
    [status |-> status, wg |-> wg, xsrf |-> xsrf, body |-> body]

Responses(statuses, bodies, wgs) ==
    {Response(st, wg, xsrf, b) :
        st \in statuses \ {NoAnswer}, wg \in wgs,
        xsrf \in SetCookie("x"), b \in bodies}
    \cup (IF NoAnswer \in statuses
          THEN {Response(NoAnswer, Missing, Missing, NoBody)} ELSE {})

\* the session cookie is set by login responses only; the anti-forgery
\* cookie may come with any response
KeyResponses ==
    {r \in Responses(KeyStatuses, KeyBodies, {Missing}) :
        r.status # 200 => r.body = NoBody}
LoginResponses == Responses(LoginStatuses, {NoBody}, SetCookie("w"))
PatResponses ==
    {r \in Responses(PatStatuses, PatBodies, {Missing}) :
        r.status # 200 => r.body = NoBody}

NoResponse == Response(-1, Missing, Missing, NoBody)

\* what a call's record keeps of a key or token response: status and body
Recorded(resp) == [resp EXCEPT !.wg = Missing, !.xsrf = Missing]

(***************************************************************************)
(* State.                                                                  *)
(***************************************************************************)
Callers == {1, 2}

Usernames == {"alice"}
Passwords == {"secret", "hunter2"}
ClientIds == {"my-client", "ci-bot"}

VARIABLES
    impl,      \* which file's VizportalAuth the instance is: "pat" | "auth"
    key_id,    \* self.key_id
    n,         \* self.n
    e,         \* self.e
    jar,       \* self.session.cookies: workgroup_session_id, XSRF-TOKEN
    active,    \* the callers that use the instance
    pc,        \* pc[c]: the statement caller c is at
    call,      \* call[c]: caller c's current (or, when idle, last) call
    loggedIn   \* history: some login call on the instance has returned

vars == <<impl, key_id, n, e, jar, active, pc, call, loggedIn>>

\* the result of RSA PKCS#1 v1.5 encryption of pt under (mod, exp), hex
\* encoded: a term that only the matching private key opens
Cipher(mod, exp, pt) == [mod |-> mod, exp |-> exp, pt |-> pt]
NoCipher == Cipher(0, 0, "")

Request(method, username, enc, keyId, clientId, xsrf) ==
    [method |-> method, username |-> username, encryptedPassword |-> enc,
     keyId |-> keyId, clientId |-> clientId, xsrfHeader |-> xsrf]

\* the outcome of a call: still running, a returned value, or an exception
Pending == [tag |-> "pending", exc |-> "", msg |-> "", status |-> 0, val |-> <<>>]
Return(val) == [tag |-> "return", exc |-> "", msg |-> "", status |-> 0, val |-> val]
Raise(exc, msg, status) ==
    [tag |-> "raise", exc |-> exc, msg |-> msg, status |-> status, val |-> <<>>]

NewCall(name, username, password, client_id, prev, held0) ==
    [name |-> name,
     prev |-> prev,                \* how the call before it ended
     held0 |-> held0,              \* key_id, n, e all held when it began
     username |-> username, password |-> password,
     client_id |-> client_id,
     reqs |-> <<>>,                \* the requests the call has sent
     keyResp |-> NoResponse,       \* the responses it has received
     loginResp |-> NoResponse,
     patResp |-> NoResponse,
     result |-> NoBody,            \* local: resp.json()["result"]
     encrypted_hex |-> NoCipher,   \* local: encrypted_hex
     out |-> Pending]

\* what a call's record keeps of the call before it on the instance
Summary(cl) ==
    IF cl.name = "none" THEN "first"
    ELSE IF cl.name = "login" /\ cl.out.tag = "return"
         THEN IF cl.prev = "first" THEN "first login returned" ELSE "login returned"
    ELSE IF cl.name = "login" /\ cl.out.exc = "HTTPError" /\ cl.out.status \in {401, 403}
         THEN "login rejected"
    ELSE "other"

NoCall == NewCall("none", "", "", "", "first", FALSE)

Impls == {"pat", "auth"}

\* __init__: key fields None, a fresh requests.Session with an empty jar
InitInstance ==
    /\ impl \in Impls
    /\ key_id = None
    /\ n = None
    /\ e = None
    /\ jar = [wg |-> None, xsrf |-> None]
    /\ pc = [c \in Callers |-> "idle"]
    /\ call = [c \in Callers |-> NoCall]
    /\ loggedIn = FALSE

Init == InitInstance /\ active = {1}

\* faulty variant: a cookie the session already holds is never replaced
UpdateJar_KeepOld(j, resp) ==
    [wg   |-> IF j.wg = None THEN (IF resp.wg = Missing THEN None ELSE resp.wg) ELSE j.wg,
     xsrf |-> IF j.xsrf = None THEN (IF resp.xsrf = Missing THEN None ELSE resp.xsrf) ELSE j.xsrf]

(***************************************************************************)
(* The statements of the class, as operators.                              *)
(***************************************************************************)
\* requests.Session keeps the cookies of every response it receives,
\* whatever the status; a cookie the response does not set stays as it was
UpdateJar(j, resp) ==
    [wg   |-> IF resp.wg = Missing THEN j.wg ELSE resp.wg,
     xsrf |-> IF resp.xsrf = Missing THEN j.xsrf ELSE resp.xsrf]

\* faulty variant: only a 5xx status raises
RaisesForStatus_ServerOnly(status) == status >= 500 /\ status < 600

\* faulty variant: only a 4xx status raises
RaisesForStatus_ClientOnly(status) == status >= 400 /\ status < 500

\* resp.raise_for_status(): HTTPError for a 4xx or 5xx status
RaisesForStatus(status) == status >= 400 /\ status < 600

\* _headers(xsrf_token): X-XSRF-TOKEN is added only for a truthy token
HeaderXsrf(xsrf_token) == IF Truthy(xsrf_token) THEN xsrf_token ELSE Missing

\* hasattr(self, 'key_id'): __init__ assigns the attribute and nothing
\* deletes it
HasAttrKeyId == TRUE

\* faulty variant: login fetches a key every time
NeedsKeyFetch_Always(im, kid, kn, ke) == TRUE

\* login's test for fetching the key first
NeedsKeyFetch(im, kid, kn, ke) ==
    IF im = "pat"
    THEN kid = None \/ kn = None \/ ke = None
    ELSE ~HasAttrKeyId

\* faulty variant: every key field is read with int(x, 16), a native
\* integer included
ParseKeyField_StrOnly(im, x) ==
    IF x.t = "str"
    THEN IF IsHexText(x.s)
         THEN [ok |-> TRUE, exc |-> "", v |-> HexValue(x.s)]
         ELSE [ok |-> FALSE, exc |-> "ValueError", v |-> 0]
    ELSE [ok |-> FALSE, exc |-> "TypeError", v |-> 0]

\* parsing of one key field in encrypt_password
ParseKeyField(im, x) ==
    IF x.t = "str"
    THEN IF IsHexText(x.s)
         THEN [ok |-> TRUE, exc |-> "", v |-> HexValue(x.s)]
         ELSE [ok |-> FALSE, exc |-> "ValueError", v |-> 0]
    ELSE IF im = "pat"
         THEN [ok |-> TRUE, exc |-> "", v |-> x.v]
         ELSE [ok |-> FALSE, exc |-> "TypeError", v |-> 0]

\* RSA.construct((modulus, exponent)): the library's check of a public key
ValidRsa(modulus, exponent) ==
    /\ exponent > 1
    /\ exponent < modulus
    /\ Gcd(modulus, exponent) = 1
    /\ modulus % 2 = 1

\* faulty variant: the missing key is reported with the ValueError of
\* vizportal_auth.py in both files
EncryptPassword_ValueErrorOnly(im, kn, ke, plaintext_password) ==
    IF kn = None \/ ke = None
    THEN Raise("ValueError", "Public key not generated", 0)
    ELSE LET modulus == ParseKeyField(im, kn)
             exponent == ParseKeyField(im, ke)
         IN  IF ~modulus.ok THEN Raise(modulus.exc, "int(n)", 0)
             ELSE IF ~exponent.ok THEN Raise(exponent.exc, "int(e)", 0)
             ELSE IF ~ValidRsa(modulus.v, exponent.v)
                  THEN Raise("ValueError", "Invalid RSA key components", 0)
             ELSE Return(<<Cipher(modulus.v, exponent.v, plaintext_password)>>)

\* faulty variant: only the modulus is tested for None
EncryptPassword_ModulusOnlyChecked(im, kn, ke, plaintext_password) ==
    IF kn = None
    THEN IF im = "pat"
         THEN Raise("RuntimeError", "Public key not initialized", 0)
         ELSE Raise("ValueError", "Public key not generated", 0)
    ELSE LET modulus == ParseKeyField(im, kn)
             exponent == ParseKeyField(im, ke)
         IN  IF ~modulus.ok THEN Raise(modulus.exc, "int(n)", 0)
             ELSE IF ~exponent.ok THEN Raise(exponent.exc, "int(e)", 0)
             ELSE IF ~ValidRsa(modulus.v, exponent.v)
                  THEN Raise("ValueError", "Invalid RSA key components", 0)
             ELSE Return(<<Cipher(modulus.v, exponent.v, plaintext_password)>>)

\* encrypt_password(plaintext_password) on key fields kn, ke
EncryptPassword(im, kn, ke, plaintext_password) ==
    IF kn = None \/ ke = None
    THEN IF im = "pat"
         THEN Raise("RuntimeError", "Public key not initialized", 0)
         ELSE Raise("ValueError", "Public key not generated", 0)
    ELSE LET modulus == ParseKeyField(im, kn)
             exponent == ParseKeyField(im, ke)
         IN  IF ~modulus.ok THEN Raise(modulus.exc, "int(n)", 0)
             ELSE IF ~exponent.ok THEN Raise(exponent.exc, "int(e)", 0)
             ELSE IF ~ValidRsa(modulus.v, exponent.v)
                  THEN Raise("ValueError", "Invalid RSA key components", 0)
             ELSE Return(<<Cipher(modulus.v, exponent.v, plaintext_password)>>)

\* faulty variant: the cookies are tested for None only, so an empty value passes
TokensFound_NoneOnly(wg, xsrf) == ~(wg = None \/ xsrf = None)

\* faulty variant: only the session-id cookie is tested
TokensFound_SessionOnly(wg, xsrf) == ~(~Truthy(wg))

\* login's test of the two cookies it read from the session
TokensFound(wg, xsrf) == ~(~Truthy(wg) \/ ~Truthy(xsrf))

\* faulty variant: the XSRF-TOKEN cookie is tested for None only
HasXsrf_NoneOnly(xsrf) == xsrf # None

\* create_personal_access_token's test of the XSRF-TOKEN cookie
HasXsrf(xsrf) == ~(~Truthy(xsrf))

\* resp.json().get("result", {}).get("refreshToken")
RefreshTokenOf(body) ==
    IF body.result /\ body.refreshToken # Missing THEN body.refreshToken ELSE None

(***************************************************************************)
(* The steps of a call.                                                    *)
(***************************************************************************)
Instance == <<key_id, n, e>>

\* the instance holds all of key_id, n, e
KeyComplete == key_id # None /\ n # None /\ e # None

\* the call ends: its outcome reaches the caller
Finish(c, cl, outcome) ==
    /\ call' = [call EXCEPT ![c] = [cl EXCEPT !.out = outcome]]
    /\ pc' = [pc EXCEPT ![c] = "idle"]

Goto(c, cl, label) ==
    /\ call' = [call EXCEPT ![c] = cl]
    /\ pc' = [pc EXCEPT ![c] = label]

\* auth.generate_public_key()
BeginGenerateKey(c) ==
    /\ pc[c] = "idle"
    /\ Goto(c, NewCall("generate_public_key", "", "", "", Summary(call[c]), KeyComplete), "gk_send")
    /\ UNCHANGED <<impl, key_id, n, e, jar, active, loggedIn>>

\* generate_public_key: the POST to generatePublicKey
SendKeyRequest(c) ==
    /\ pc[c] = "gk_send"
    /\ Goto(c, [call[c] EXCEPT !.reqs = Append(@,
                   Request("generatePublicKey", "", NoCipher, Missing, "",
                           HeaderXsrf(None)))],
            "gk_wait")
    /\ UNCHANGED <<impl, key_id, n, e, jar, active, loggedIn>>

\* generate_public_key: the response arrives; raise_for_status; ["result"]
RecvKeyResponse(c, resp) ==
    /\ pc[c] = "gk_wait"
    /\ LET cl == [call[c] EXCEPT !.keyResp = Recorded(resp)] IN
       IF resp.status = NoAnswer
       THEN /\ Finish(c, cl, Raise("ConnectionError", "", 0))
            /\ UNCHANGED jar
       ELSE /\ jar' = UpdateJar(jar, resp)
            /\ IF RaisesForStatus(resp.status)
               THEN Finish(c, cl, Raise("HTTPError", "", resp.status))
               ELSE IF ~resp.body.result
               THEN Finish(c, cl, Raise("KeyError", "result", 0))
               ELSE Goto(c, [cl EXCEPT !.result = resp.body], "gk_kid")
    /\ UNCHANGED <<impl, key_id, n, e, active, loggedIn>>

\* faulty variant: a keyId already held is kept
StoreKeyId_KeepsFirst(c) ==
    /\ pc[c] = "gk_kid"
    /\ IF call[c].result.keyId = Missing
       THEN /\ Finish(c, call[c], Raise("KeyError", "keyId", 0))
            /\ UNCHANGED key_id
       ELSE /\ key_id' = IF key_id = None THEN call[c].result.keyId ELSE key_id
            /\ Goto(c, call[c], "gk_n")
    /\ UNCHANGED <<impl, n, e, jar, active, loggedIn>>

\* faulty variant: the keyId of the response is read but not stored
StoreKeyId_Skipped(c) ==
    /\ pc[c] = "gk_kid"
    /\ IF call[c].result.keyId = Missing
       THEN Finish(c, call[c], Raise("KeyError", "keyId", 0))
       ELSE Goto(c, call[c], "gk_n")
    /\ UNCHANGED <<impl, key_id, n, e, jar, active, loggedIn>>

\* generate_public_key: self.key_id = result["keyId"]
StoreKeyId(c) ==
    /\ pc[c] = "gk_kid"
    /\ IF call[c].result.keyId = Missing
       THEN /\ Finish(c, call[c], Raise("KeyError", "keyId", 0))
            /\ UNCHANGED key_id
       ELSE /\ key_id' = call[c].result.keyId
            /\ Goto(c, call[c], "gk_n")
    /\ UNCHANGED <<impl, n, e, jar, active, loggedIn>>

\* generate_public_key: self.n = result["key"]["n"]
StoreN(c) ==
    /\ pc[c] = "gk_n"
    /\ IF call[c].result.n = Missing
       THEN /\ Finish(c, call[c], Raise("KeyError", "n", 0))
            /\ UNCHANGED n
       ELSE /\ n' = call[c].result.n
            /\ Goto(c, call[c], "gk_e")
    /\ UNCHANGED <<impl, key_id, e, jar, active, loggedIn>>

\* generate_public_key: self.e = result["key"]["e"], and the return; a
\* fetch made by login goes on to the encryption
StoreE(c) ==
    /\ pc[c] = "gk_e"
    /\ IF call[c].result.e = Missing
       THEN /\ Finish(c, call[c], Raise("KeyError", "e", 0))
            /\ UNCHANGED e
       ELSE /\ e' = call[c].result.e
            /\ IF call[c].name = "login"
               THEN Goto(c, call[c], "l_enc")
               ELSE Finish(c, call[c], Return(<<key_id, n, call[c].result.e>>))
    /\ UNCHANGED <<impl, key_id, n, jar, active, loggedIn>>

\* auth.login(username, plaintext_password) as implementation im has it:
\* the test for a key fetch
BeginLoginAs(im, c, username, password) ==
    /\ pc[c] = "idle"
    /\ Goto(c, NewCall("login", username, password, "", Summary(call[c]), KeyComplete),
            IF NeedsKeyFetch(im, key_id, n, e) THEN "gk_send" ELSE "l_enc")
    /\ UNCHANGED <<impl, key_id, n, e, jar, active, loggedIn>>

BeginLogin(c, username, password) == BeginLoginAs(impl, c, username, password)

\* login: encrypted_hex = self.encrypt_password(plaintext_password)
EncryptAs(im, c) ==
    /\ pc[c] = "l_enc"
    /\ LET r == EncryptPassword(im, n, e, call[c].password) IN
       IF r.tag = "raise"
       THEN Finish(c, call[c], r)
       ELSE Goto(c, [call[c] EXCEPT !.encrypted_hex = r.val[1]], "l_send")
    /\ UNCHANGED <<impl, key_id, n, e, jar, active, loggedIn>>

Encrypt(c) == EncryptAs(impl, c)

\* auth.encrypt_password(plaintext_password), called by the caller itself
CallEncryptPassword(c, password) ==
    /\ pc[c] = "idle"
    /\ LET cl == NewCall("encrypt_password", "", password, "", Summary(call[c]),
                         KeyComplete)
           r == EncryptPassword(impl, n, e, password)
       IN
       Finish(c, [cl EXCEPT !.encrypted_hex =
                                IF r.tag = "return" THEN r.val[1] ELSE NoCipher], r)
    /\ UNCHANGED <<impl, key_id, n, e, jar, active, loggedIn>>

\* login: the payload (it reads self.key_id) and the POST to login
SendLoginRequest(c) ==
    /\ pc[c] = "l_send"
    /\ Goto(c, [call[c] EXCEPT
                   !.reqs = Append(@, Request("login", call[c].username,
                                              call[c].encrypted_hex, key_id, "",
                                              HeaderXsrf(None)))],
            "l_wait")
    /\ UNCHANGED <<impl, key_id, n, e, jar, active, loggedIn>>

\* faulty variant: a 5xx answer is waited out, the call reads the next answer
RecvLoginResponse_WaitsOut5xx(c, resp) ==
    /\ pc[c] = "l_wait"
    /\ LET cl == [call[c] EXCEPT !.loginResp = resp]
           j == UpdateJar(jar, resp)
       IN
       IF resp.status = NoAnswer
       THEN /\ Finish(c, cl, Raise("ConnectionError", "", 0))
            /\ UNCHANGED <<jar, loggedIn>>
       ELSE /\ jar' = j
            /\ IF resp.status >= 500
               THEN /\ Goto(c, cl, "l_wait")
                    /\ UNCHANGED loggedIn
               ELSE IF RaisesForStatus(resp.status)
               THEN /\ Finish(c, cl, Raise("HTTPError", "", resp.status))
                    /\ UNCHANGED loggedIn
               ELSE IF ~TokensFound(j.wg, j.xsrf)
               THEN /\ Finish(c, cl, Raise("RuntimeError",
                                           "Login succeeded but tokens not found in cookies", 0))
                    /\ UNCHANGED loggedIn
               ELSE /\ Finish(c, cl, Return(<<j.wg, j.xsrf>>))
                    /\ loggedIn' = TRUE
    /\ UNCHANGED <<impl, key_id, n, e, active>>

\* faulty variant: a login request that got no answer or an error status is
\* sent again
RecvLoginResponse_Retry(c, resp) ==
    /\ pc[c] = "l_wait"
    /\ LET cl == [call[c] EXCEPT !.loginResp = resp]
           j == UpdateJar(jar, resp)
       IN
       IF resp.status = NoAnswer
       THEN /\ Goto(c, cl, "l_send")
            /\ UNCHANGED <<jar, loggedIn>>
       ELSE /\ jar' = j
            /\ IF RaisesForStatus(resp.status)
               THEN /\ Goto(c, cl, "l_send")
                    /\ UNCHANGED loggedIn
               ELSE IF ~TokensFound(j.wg, j.xsrf)
               THEN /\ Finish(c, cl, Raise("RuntimeError",
                                           "Login succeeded but tokens not found in cookies", 0))
                    /\ UNCHANGED loggedIn
               ELSE /\ Finish(c, cl, Return(<<j.wg, j.xsrf>>))
                    /\ loggedIn' = TRUE
    /\ UNCHANGED <<impl, key_id, n, e, active>>

\* login: the response arrives; raise_for_status; the two cookies are read
\* from the session and tested
RecvLoginResponse(c, resp) ==
    /\ pc[c] = "l_wait"
    /\ LET cl == [call[c] EXCEPT !.loginResp = resp]
           j == UpdateJar(jar, resp)
       IN
       IF resp.status = NoAnswer
       THEN /\ Finish(c, cl, Raise("ConnectionError", "", 0))
            /\ UNCHANGED <<jar, loggedIn>>
       ELSE /\ jar' = j
            /\ IF RaisesForStatus(resp.status)
               THEN /\ Finish(c, cl, Raise("HTTPError", "", resp.status))
                    /\ UNCHANGED loggedIn
               ELSE IF ~TokensFound(j.wg, j.xsrf)
               THEN /\ Finish(c, cl, Raise("RuntimeError",
                                           "Login succeeded but tokens not found in cookies", 0))
                    /\ UNCHANGED loggedIn
               ELSE /\ Finish(c, cl, Return(<<j.wg, j.xsrf>>))
                    /\ loggedIn' = TRUE
    /\ UNCHANGED <<impl, key_id, n, e, active>>

\* auth.create_personal_access_token(client_id): the XSRF-TOKEN cookie is
\* read and tested, then the POST
BeginCreatePat(c, client_id) ==
    /\ pc[c] = "idle"
    /\ impl = "pat"
    /\ LET cl == NewCall("create_personal_access_token", "", "", client_id,
                         Summary(call[c]), KeyComplete)
           xsrf == jar.xsrf
       IN
       IF ~HasXsrf(xsrf)
       THEN Finish(c, cl, Raise("RuntimeError",
                                "Missing XSRF-TOKEN; please login first", 0))
       ELSE Goto(c, [cl EXCEPT !.reqs = <<Request("createPersonalAccessToken", "",
                                                   NoCipher, Missing, client_id,
                                                   HeaderXsrf(xsrf))>>],
                 "p_wait")
    /\ UNCHANGED <<impl, key_id, n, e, jar, active, loggedIn>>

\* faulty variant: the refreshToken is returned without the test
RecvPatResponse_Untested(c, resp) ==
    /\ pc[c] = "p_wait"
    /\ LET cl == [call[c] EXCEPT !.patResp = Recorded(resp)]
           token == RefreshTokenOf(resp.body)
       IN
       IF resp.status = NoAnswer
       THEN /\ Finish(c, cl, Raise("ConnectionError", "", 0))
            /\ UNCHANGED jar
       ELSE /\ jar' = UpdateJar(jar, resp)
            /\ IF RaisesForStatus(resp.status)
               THEN Finish(c, cl, Raise("HTTPError", "", resp.status))
               ELSE Finish(c, cl, Return(<<token>>))
    /\ UNCHANGED <<impl, key_id, n, e, active, loggedIn>>

\* create_personal_access_token: the response arrives; raise_for_status;
\* the refreshToken is read and tested
RecvPatResponse(c, resp) ==
    /\ pc[c] = "p_wait"
    /\ LET cl == [call[c] EXCEPT !.patResp = Recorded(resp)]
           token == RefreshTokenOf(resp.body)
       IN
       IF resp.status = NoAnswer
       THEN /\ Finish(c, cl, Raise("ConnectionError", "", 0))
            /\ UNCHANGED jar
       ELSE /\ jar' = UpdateJar(jar, resp)
            /\ IF RaisesForStatus(resp.status)
               THEN Finish(c, cl, Raise("HTTPError", "", resp.status))
               ELSE IF ~Truthy(token)
               THEN Finish(c, cl, Raise("RuntimeError", "Unexpected response", 0))
               ELSE Finish(c, cl, Return(<<token>>))
    /\ UNCHANGED <<impl, key_id, n, e, active, loggedIn>>

\* one caller at a time: a call begins only when no other call is running
NoCallRunning == \A d \in active : pc[d] = "idle"

DoBeginGenerateKey == \E c \in active : NoCallRunning /\ BeginGenerateKey(c)
DoSendKeyRequest == \E c \in active : SendKeyRequest(c)
DoRecvKeyResponse == \E c \in active : \E resp \in KeyResponses : RecvKeyResponse(c, resp)
DoStoreKeyId == \E c \in active : StoreKeyId(c)
DoStoreN == \E c \in active : StoreN(c)
DoStoreE == \E c \in active : StoreE(c)
DoBeginLogin ==
    \E c \in active : NoCallRunning /\ \E u \in Usernames, p \in Passwords : BeginLogin(c, u, p)
DoEncrypt == \E c \in active : Encrypt(c)
DoCallEncryptPassword ==
    \E c \in active : NoCallRunning /\ \E p \in Passwords : CallEncryptPassword(c, p)
DoSendLoginRequest == \E c \in active : SendLoginRequest(c)
DoRecvLoginResponse == \E c \in active : \E resp \in LoginResponses : RecvLoginResponse(c, resp)
DoBeginCreatePat ==
    \E c \in active : NoCallRunning /\ \E cid \in ClientIds : BeginCreatePat(c, cid)
DoRecvPatResponse == \E c \in active : \E resp \in PatResponses : RecvPatResponse(c, resp)

Next ==
    \/ DoBeginGenerateKey
    \/ DoSendKeyRequest
    \/ DoRecvKeyResponse
    \/ DoStoreKeyId
    \/ DoStoreN
    \/ DoStoreE
    \/ DoBeginLogin
    \/ DoEncrypt
    \/ DoCallEncryptPassword
    \/ DoSendLoginRequest
    \/ DoRecvLoginResponse
    \/ DoBeginCreatePat
    \/ DoRecvPatResponse

Spec == Init /\ [][Next]_vars

(***************************************************************************)
(* The same program where a call that has begun keeps running: the code of *)
(* a call is straight-line and its requests block, so each statement after *)
(* the first is executed once the one before it is done, and a request     *)
(* sent is answered (or fails in the transport) in the end.  Whether a     *)
(* caller begins another call is up to the caller.                         *)
(***************************************************************************)
RunningCallStep ==
    \/ DoSendKeyRequest
    \/ DoRecvKeyResponse
    \/ DoStoreKeyId
    \/ DoStoreN
    \/ DoStoreE
    \/ DoEncrypt
    \/ DoSendLoginRequest
    \/ DoRecvLoginResponse
    \/ DoRecvPatResponse

SpecLive == Init /\ [][Next]_vars /\ WF_vars(RunningCallStep)

(***************************************************************************)
(* The key fields as a server may send them.  generate_public_key stores   *)
(* result.key.n and result.key.e as they come: hexadecimal text, a JSON    *)
(* number, decimal text, empty text, or text that is no number.            *)
(* SpecEncrypt starts from an instance holding such fields of the server's *)
(* first key pair and runs one call on it: encrypt_password, or login.     *)
(***************************************************************************)
RECURSIVE ToDec(_)
ToDec(k) ==
    IF k < 10 THEN <<HexChars[k + 1]>>
    ELSE Append(ToDec(k \div 10), HexChars[(k % 10) + 1])

FormatsWide == {"hex", "int", "dec", "empty", "bad"}

RenderWide(k, fmt) ==
    CASE fmt = "hex"   -> Str(ToHex(k))
      [] fmt = "int"   -> Int_(k)
      [] fmt = "dec"   -> Str(ToDec(k))
      [] fmt = "empty" -> Str(<<>>)
      [] fmt = "bad"   -> Str(<<"n", "/", "a">>)

\* key_id, n, e of an instance: nothing held, or what generate_public_key
\* stored (key_id and n, and e unless the body lacked it)
HeldKeyInputs ==
    {<<None, None, None>>}
    \cup {<<Str(KeyTable[1].keyId), RenderWide(KeyTable[1].N, fn), ke>> :
             fn \in FormatsWide,
             ke \in {None} \cup {RenderWide(KeyTable[1].E, fe) : fe \in FormatsWide}}

InitEncrypt ==
    /\ impl \in Impls
    /\ \E k \in HeldKeyInputs : key_id = k[1] /\ n = k[2] /\ e = k[3]
    /\ jar = [wg |-> None, xsrf |-> None]
    /\ pc = [c \in Callers |-> "idle"]
    /\ call = [c \in Callers |-> NoCall]
    /\ loggedIn = FALSE
    /\ active = {1}

DoFirstEncryptPassword ==
    \E c \in active :
        call[c] = NoCall /\ \E p \in Passwords : CallEncryptPassword(c, p)

DoFirstLogin ==
    \E c \in active :
        call[c] = NoCall /\ \E u \in Usernames, p \in Passwords : BeginLogin(c, u, p)

NextEncrypt ==
    \/ DoFirstEncryptPassword
    \/ DoFirstLogin
    \/ DoSendKeyRequest
    \/ DoRecvKeyResponse
    \/ DoStoreKeyId
    \/ DoStoreN
    \/ DoStoreE
    \/ DoEncrypt
    \/ DoSendLoginRequest
    \/ DoRecvLoginResponse

SpecEncrypt == InitEncrypt /\ [][NextEncrypt]_vars

(***************************************************************************)
(* Callers that run login, with no synchronization between them: `active`  *)
(* is the set of callers of the one instance, one caller when it has the   *)
(* instance for itself and two when they share it.  The statements of the  *)
(* calls interleave freely.  A caller that shares the instance logs in     *)
(* once; a caller with its own instance logs in any number of times.       *)
(***************************************************************************)
InitShared == InitInstance /\ active \in {{1}, {1, 2}}

DoConcurrentBeginLogin ==
    \E c \in active :
        /\ Cardinality(active) > 1 => call[c] = NoCall
        /\ \E u \in Usernames, p \in Passwords : BeginLogin(c, u, p)

\* the cookies play no part in which key a request names: in this
\* specification the answers set none
DoRecvKeyResponseNoCookie ==
    \E c \in active :
        \E resp \in {r \in KeyResponses : r.xsrf = Missing} :
            RecvKeyResponse(c, resp)

DoRecvLoginResponseNoCookie ==
    \E c \in active :
        \E resp \in {r \in LoginResponses : r.wg = Missing /\ r.xsrf = Missing} :
            RecvLoginResponse(c, resp)

NextShared ==
    \/ DoConcurrentBeginLogin
    \/ DoSendKeyRequest
    \/ DoRecvKeyResponseNoCookie
    \/ DoStoreKeyId
    \/ DoStoreN
    \/ DoStoreE
    \/ DoEncrypt
    \/ DoSendLoginRequest
    \/ DoRecvLoginResponseNoCookie

SpecShared == InitShared /\ [][NextShared]_vars

(***************************************************************************)
(* Vocabulary of the claims.  The specification's error kinds, read off    *)
(* what the class raises.                                                  *)
(***************************************************************************)
\* caller c's call has ended
Done(c) == pc[c] = "idle" /\ call[c].name # "none"

Returned(c) == Done(c) /\ call[c].out.tag = "return"

Is2xx(status) == status >= 200 /\ status < 300
Is4xx(status) == status >= 400 /\ status < 500

\* the requests of caller c's call to one endpoint
SentTo(c, method) ==
    {i \in 1..Len(call[c].reqs) : call[c].reqs[i].method = method}

NotAuthenticated(o) ==
    /\ o.tag = "raise"
    /\ o.exc = "RuntimeError"
    /\ o.msg = "Missing XSRF-TOKEN; please login first"

IncompleteSession(o) ==
    /\ o.tag = "raise"
    /\ o.exc = "RuntimeError"
    /\ o.msg = "Login succeeded but tokens not found in cookies"

\* An error kind is an exception class.  AuthRejected is the class login
\* raises when the server answers 401 or 403; TransportError the class of a
\* request that got no answer.
AuthRejected(o) == o.tag = "raise" /\ o.exc = "HTTPError"

TransportError(o) == o.tag = "raise" /\ o.exc = "ConnectionError"

\* a 2xx response whose body lacks an expected field
ProtocolError(o) == o.tag = "raise" /\ o.exc = "KeyError"


(***************************************************************************)
(* C1: create_personal_access_token on an instance on which no login has   *)
(* yet returned fails with NotAuthenticated and sends no request, whatever *)
(* calls failed before it and whatever cookies their responses carried.    *)
(***************************************************************************)
C1_PatBeforeLoginSendsNothing ==
    \A c \in active :
        (call[c].name = "create_personal_access_token" /\ ~loggedIn)
            => /\ call[c].reqs = <<>>
               /\ Done(c) => NotAuthenticated(call[c].out)

(***************************************************************************)
(* C2, as claimed: whenever login returns a value, the session id and the  *)
(* anti-forgery token in it are both non-empty; and a login whose 2xx      *)
(* login response sets no cookie ends with IncompleteSession.              *)
(***************************************************************************)
C2_Original_NoCookiesInResponseIsIncomplete ==
    \A c \in active :
        (Done(c) /\ call[c].name = "login")
            => /\ call[c].out.tag = "return"
                    => Truthy(call[c].out.val[1]) /\ Truthy(call[c].out.val[2])
               /\ ( /\ Is2xx(call[c].loginResp.status)
                    /\ call[c].loginResp.wg = Missing
                    /\ call[c].loginResp.xsrf = Missing )
                    => IncompleteSession(call[c].out)

(***************************************************************************)
(* C2, amended: whenever login returns a value, the session id and the     *)
(* anti-forgery token in it are both non-empty; and a login whose 2xx      *)
(* login response leaves the session's cookie jar without a non-empty      *)
(* session-id cookie or without a non-empty anti-forgery cookie ends with  *)
(* IncompleteSession (so does a response that sets no cookie, when the     *)
(* jar held none of the two before).                                       *)
(***************************************************************************)
C2_LoginNeverReturnsEmptyCredentials ==
    \A c \in active :
        (Done(c) /\ call[c].name = "login")
            => /\ call[c].out.tag = "return"
                    => Truthy(call[c].out.val[1]) /\ Truthy(call[c].out.val[2])
               /\ ( /\ Is2xx(call[c].loginResp.status)
                    /\ ~(Truthy(jar.wg) /\ Truthy(jar.xsrf)) )
                    => IncompleteSession(call[c].out)

\* a first login got 200 without any cookie and ended with IncompleteSession
C2_Witness ==
    \E c \in active :
        /\ Done(c)
        /\ call[c].name = "login"
        /\ call[c].prev = "first"
        /\ call[c].loginResp.status = 200
        /\ call[c].loginResp.wg = Missing
        /\ call[c].loginResp.xsrf = Missing
        /\ IncompleteSession(call[c].out)

(***************************************************************************)
(* C3, as claimed: whatever calls came before on the instance, a 2xx login *)
(* response that lacks the session-id cookie or the anti-forgery cookie    *)
(* makes the login fail with IncompleteSession, no login is newly reported *)
(* successful, and key_id, n, e stay as they were when the login request   *)
(* was sent.                                                               *)
(***************************************************************************)
C3_Original_MissingCookieInResponse ==
    [][\A c \in active :
          ( /\ pc[c] = "l_wait"
            /\ pc'[c] = "idle"
            /\ Is2xx(call'[c].loginResp.status)
            /\ \/ call'[c].loginResp.wg = Missing
               \/ call'[c].loginResp.xsrf = Missing )
          => /\ IncompleteSession(call'[c].out)
             /\ loggedIn' = loggedIn
             /\ <<key_id, n, e>>' = <<key_id, n, e>>]_vars

(***************************************************************************)
(* C3, amended: whatever calls came before on the instance, a 2xx login    *)
(* response after which the session's cookie jar holds no non-empty        *)
(* session-id cookie or no non-empty anti-forgery cookie makes the login   *)
(* fail with IncompleteSession, no login is newly reported successful, and *)
(* key_id, n, e stay as they were when the login request was sent.  (A     *)
(* cookie the response lacks but the jar still holds from an earlier       *)
(* response counts as found.)                                              *)
(***************************************************************************)
C3_MissingCookieInJarIsIncompleteSession ==
    [][\A c \in active :
          ( /\ pc[c] = "l_wait"
            /\ pc'[c] = "idle"
            /\ Is2xx(call'[c].loginResp.status)
            /\ \/ ~Truthy(jar'.wg)
               \/ ~Truthy(jar'.xsrf) )
          => /\ IncompleteSession(call'[c].out)
             /\ loggedIn' = loggedIn
             /\ <<key_id, n, e>>' = <<key_id, n, e>>]_vars

\* after an earlier successful login, a login whose 200 response lacks the
\* anti-forgery cookie ended with IncompleteSession
C3_Witness ==
    \E c \in active :
        /\ Done(c)
        /\ call[c].name = "login"
        /\ call[c].prev \in {"first login returned", "login returned"}
        /\ call[c].loginResp.status = 200
        /\ call[c].loginResp.xsrf = Missing
        /\ IncompleteSession(call[c].out)
        /\ KeyComplete

(***************************************************************************)
(* C4: when the server answers the login request with 401 or 403, login    *)
(* fails with AuthRejected (the HTTPError of that status), key_id, n and e *)
(* are unchanged and all three set, and the login call that follows        *)
(* immediately on the instance sends a login request: it never ends        *)
(* without having sent one.                                                *)
(***************************************************************************)
C4_RejectedLoginLeavesInstanceUsable ==
    [][\A c \in active :
          /\ ( /\ pc[c] = "l_wait"
               /\ pc'[c] = "idle"
               /\ call'[c].loginResp.status \in {401, 403} )
             => /\ AuthRejected(call'[c].out)
                /\ call'[c].out.status = call'[c].loginResp.status
                /\ <<key_id, n, e>>' = <<key_id, n, e>>
                /\ key_id' # None /\ n' # None /\ e' # None
                /\ loggedIn' = loggedIn
          /\ ( /\ call'[c].name = "login"
               /\ call'[c].prev = "login rejected" )
             => /\ call'[c].held0
                /\ pc'[c] \in {"l_enc", "l_send", "l_wait", "idle"}
                /\ pc'[c] \in {"l_wait", "idle"}
                      => \E i \in 1..Len(call'[c].reqs) :
                             call'[c].reqs[i].method = "login"]_vars

\* a login rejected with 403 was followed at once by a login that sent its
\* request and returned
C4_Witness ==
    \E c \in active :
        /\ Done(c)
        /\ call[c].name = "login"
        /\ call[c].prev = "login rejected"
        /\ SentTo(c, "login") # {}
        /\ call[c].out.tag = "return"

(***************************************************************************)
(* C5, as claimed: when the generatePublicKey response is 2xx but lacks    *)
(* result.key.e, the call that made the fetch (generate_public_key, or the *)
(* login that triggered it) fails with ProtocolError, and key_id, n and e  *)
(* are never changed by that call: nothing of the defective response is    *)
(* stored.                                                                 *)
(***************************************************************************)
C5_KeyResponseWithoutExponentStoresNothing ==
    [][\A c \in active :
          ( /\ pc[c] \in {"gk_kid", "gk_n", "gk_e"}
            /\ Is2xx(call[c].keyResp.status)
            /\ call[c].keyResp.body.result
            /\ call[c].keyResp.body.e = Missing )
          => /\ <<key_id, n, e>>' = <<key_id, n, e>>
             /\ pc'[c] = "idle" => ProtocolError(call'[c].out)]_vars

(***************************************************************************)
(* C6, as claimed: a login called on an instance that does not hold all of *)
(* key_id, n, e (a fresh instance in particular) first sends the           *)
(* generatePublicKey request; if the fetch fails the login fails, no login *)
(* request is sent and no login is reported successful; if it succeeds the *)
(* login request carries the fetched keyId and a password encrypted with   *)
(* the fetched n and e.  For both implementations.                         *)
(***************************************************************************)
C6_LoginWithoutKeyFetchesFirst ==
    \A c \in active :
        (call[c].name = "login" /\ ~call[c].held0)
            => /\ pc[c] # "gk_send"
                    => /\ call[c].reqs # <<>>
                       /\ call[c].reqs[1].method = "generatePublicKey"
               /\ (Done(c) /\ ~(call[c].keyResp.status = 200
                                 /\ GoodKeyBody(call[c].keyResp.body)))
                    => /\ call[c].out.tag = "raise"
                       /\ SentTo(c, "login") = {}
               /\ \A i \in SentTo(c, "login") :
                      /\ call[c].reqs[i].keyId = call[c].keyResp.body.keyId
                      /\ call[c].reqs[i].keyId = key_id
                      /\ call[c].keyResp.body.n = n
                      /\ call[c].keyResp.body.e = e

(***************************************************************************)
(* C7: end to end with make_me_a_friggin_pat.py, from a fresh instance and *)
(* with a server that answers correctly.  A login that is the first call   *)
(* on the instance, every response to which was correct (the complete key  *)
(* of one server key pair; 200 with both cookies set to non-empty values), *)
(* has sent the key request and then the login request and returns exactly *)
(* the two cookie values of its login response, and the instance is        *)
(* authenticated.  A create_personal_access_token(name) that follows a     *)
(* returned login, its response being 200 with a refreshToken, has sent    *)
(* one request with clientId = name and the anti-forgery token as header,  *)
(* and returns exactly that refreshToken.                                  *)
(***************************************************************************)
C7_EndToEnd ==
    impl = "pat" =>
    \A c \in active :
        /\ ( /\ Done(c)
             /\ call[c].name = "login"
             /\ call[c].prev = "first"
             /\ \/ call[c].keyResp = NoResponse
                \/ call[c].keyResp.status = 200 /\ GoodKeyBody(call[c].keyResp.body)
             /\ \/ call[c].loginResp = NoResponse
                \/ /\ call[c].loginResp.status = 200
                   /\ call[c].loginResp.wg \in CookieVals("w")
                   /\ call[c].loginResp.xsrf \in CookieVals("x") )
           => /\ Len(call[c].reqs) = 2
              /\ call[c].reqs[1].method = "generatePublicKey"
              /\ call[c].reqs[2].method = "login"
              /\ call[c].reqs[2].username = call[c].username
              /\ call[c].reqs[2].keyId = call[c].keyResp.body.keyId
              /\ call[c].loginResp # NoResponse
              /\ call[c].out = Return(<<call[c].loginResp.wg, call[c].loginResp.xsrf>>)
              /\ loggedIn
              /\ HasXsrf(jar.xsrf)
        /\ ( /\ Done(c)
             /\ call[c].name = "create_personal_access_token"
             /\ call[c].prev \in {"first login returned", "login returned"}
             /\ \/ call[c].patResp = NoResponse
                \/ /\ call[c].patResp.status = 200
                   /\ call[c].patResp.body.result
                   /\ call[c].patResp.body.refreshToken \in Tokens )
           => /\ Len(call[c].reqs) = 1
              /\ call[c].reqs[1].method = "createPersonalAccessToken"
              /\ call[c].reqs[1].clientId = call[c].client_id
              /\ call[c].reqs[1].xsrfHeader \in CookieVals("x")
              /\ call[c].patResp # NoResponse
              /\ call[c].out = Return(<<call[c].patResp.body.refreshToken>>)

\* the first call was a login that returned, and the
\* create_personal_access_token after it returned a token
C7_Witness ==
    \E c \in active :
        /\ Done(c)
        /\ call[c].name = "create_personal_access_token"
        /\ call[c].prev = "first login returned"
        /\ call[c].client_id = "my-client"
        /\ call[c].out.tag = "return"
        /\ call[c].out.val[1] \in Tokens

(***************************************************************************)
(* C8, as claimed: every login request carries the keyId of one server key *)
(* pair together with a password encrypted under the modulus and exponent  *)
(* of that same pair, after any sequence of generate_public_key and login  *)
(* calls of one caller, failed ones included.                              *)
(***************************************************************************)
C8_LoginRequestKeyIdMatchesKey ==
    \A c \in active :
        \A i \in SentTo(c, "login") :
            \E k \in Keys :
                /\ call[c].reqs[i].keyId = Str(KeyTable[k].keyId)
                /\ call[c].reqs[i].encryptedPassword.mod = KeyTable[k].N
                /\ call[c].reqs[i].encryptedPassword.exp = KeyTable[k].E

(***************************************************************************)
(* C9, as claimed: key material is not cached across login calls: a login  *)
(* call that sends a login request has made a generatePublicKey fetch      *)
(* itself, and the keyId in its request is the one of that fetch.          *)
(***************************************************************************)
C9_Original_EveryLoginFetchesItsKey ==
    \A c \in active :
        (call[c].name = "login" /\ SentTo(c, "login") # {})
            => /\ SentTo(c, "generatePublicKey") # {}
               /\ \A i \in SentTo(c, "login") :
                      call[c].reqs[i].keyId = call[c].keyResp.body.keyId

(***************************************************************************)
(* C9, amended: key material is cached on the instance across calls.  A    *)
(* login call makes a generatePublicKey fetch only in                      *)
(* make_me_a_friggin_pat.py and only when key_id, n or e is unset when it  *)
(* starts, and then the fetch is its first request.  Otherwise (always, in *)
(* vizportal_auth.py) it sends no generatePublicKey request and leaves     *)
(* key_id, n and e as the earlier calls left them.  In every case the      *)
(* keyId of its login request is the key_id the instance holds.            *)
(***************************************************************************)
C9_LoginReusesHeldKey ==
    [][\A c \in active :
          call'[c].name = "login"
          => /\ (call'[c].held0 \/ impl = "auth")
                   => /\ <<key_id, n, e>>' = <<key_id, n, e>>
                      /\ \A i \in 1..Len(call'[c].reqs) :
                             call'[c].reqs[i].method # "generatePublicKey"
             /\ (~call'[c].held0 /\ impl = "pat" /\ pc'[c] # "gk_send")
                   => /\ call'[c].reqs # <<>>
                      /\ call'[c].reqs[1].method = "generatePublicKey"
             /\ \A i \in 1..Len(call'[c].reqs) :
                    call'[c].reqs[i].method = "login"
                        => call'[c].reqs[i].keyId = key_id']_vars

\* a login that followed a returned login sent its login request without a
\* fetch of its own
C9_Witness ==
    \E c \in active :
        /\ Done(c)
        /\ call[c].name = "login"
        /\ call[c].prev \in {"first login returned", "login returned"}
        /\ call[c].held0
        /\ SentTo(c, "login") # {}
        /\ SentTo(c, "generatePublicKey") = {}
        /\ call[c].reqs[1].keyId = key_id

(***************************************************************************)
(* C10, as claimed: a non-2xx answer to the login request makes login fail *)
(* with AuthRejected when the status is 4xx and with TransportError        *)
(* otherwise, and key_id, n, e are unchanged.                              *)
(***************************************************************************)
C10_Original_ClassifiedByStatusClass ==
    [][\A c \in active :
          ( /\ pc[c] = "l_wait"
            /\ pc'[c] = "idle"
            /\ call'[c].loginResp.status # NoAnswer
            /\ ~Is2xx(call'[c].loginResp.status) )
          => /\ Is4xx(call'[c].loginResp.status) => AuthRejected(call'[c].out)
             /\ ~Is4xx(call'[c].loginResp.status)
                   => TransportError(call'[c].out) /\ ~AuthRejected(call'[c].out)
             /\ <<key_id, n, e>>' = <<key_id, n, e>>]_vars

(***************************************************************************)
(* C10, amended: a non-2xx answer to the login request is not classified   *)
(* by status class.  A 4xx and a 5xx status alike make login fail with the *)
(* one error kind of a rejected request (the HTTPError, which carries the  *)
(* status); any other non-2xx status (304, say) raises no status error:    *)
(* the cookies are tested as after a 2xx answer, so the login returns the  *)
(* session's cookies or fails with IncompleteSession.  In all cases        *)
(* key_id, n, e are unchanged and all set.                                 *)
(***************************************************************************)
C10_StatusErrorIsOneKind ==
    [][\A c \in active :
          ( /\ pc[c] = "l_wait"
            /\ pc'[c] = "idle"
            /\ call'[c].loginResp.status # NoAnswer
            /\ ~Is2xx(call'[c].loginResp.status) )
          => /\ (call'[c].loginResp.status >= 400 /\ call'[c].loginResp.status < 600)
                   => /\ AuthRejected(call'[c].out)
                      /\ ~TransportError(call'[c].out)
                      /\ call'[c].out.status = call'[c].loginResp.status
                      /\ loggedIn' = loggedIn
             /\ ~(call'[c].loginResp.status >= 400 /\ call'[c].loginResp.status < 600)
                   => \/ IncompleteSession(call'[c].out)
                      \/ /\ call'[c].out = Return(<<jar'.wg, jar'.xsrf>>)
                         /\ Truthy(jar'.wg) /\ Truthy(jar'.xsrf)
             /\ <<key_id, n, e>>' = <<key_id, n, e>>
             /\ key_id' # None /\ n' # None /\ e' # None]_vars

\* a login answered with 500 failed with the same kind as a rejected one
C10_Witness ==
    \E c \in active :
        /\ Done(c)
        /\ call[c].name = "login"
        /\ call[c].loginResp.status = 500
        /\ AuthRejected(call[c].out)
        /\ call[c].out.status = 500
        /\ KeyComplete

\* the responses a call has received so far
Received(c) ==
    {r \in {call[c].keyResp, call[c].loginResp, call[c].patResp} : r # NoResponse}

\* the answer to a request makes the call fail: none came, or an error status
FailedAnswer(r) == r.status = NoAnswer \/ (r.status >= 400 /\ r.status < 600)

(***************************************************************************)
(* C11: no retries.  Within one call each endpoint is requested at most    *)
(* once: generate_public_key has sent exactly one generatePublicKey        *)
(* request and nothing else; login at most one generatePublicKey request   *)
(* and at most one login request, in that order;                           *)
(* create_personal_access_token at most one createPersonalAccessToken      *)
(* request.  Every request sent has got its one answer or is the one still *)
(* awaited, and a call that got a failing answer (none, or a 4xx/5xx       *)
(* status) or a key body lacking a field has ended with that failure as    *)
(* its outcome and sent nothing after it.                                  *)
(***************************************************************************)
C11_NoRetries ==
    \A c \in active :
        /\ \A m \in {"generatePublicKey", "login", "createPersonalAccessToken"} :
               Cardinality(SentTo(c, m)) <= 1
        /\ call[c].name = "generate_public_key"
              => /\ pc[c] # "gk_send" => Len(call[c].reqs) = 1
                 /\ \A i \in 1..Len(call[c].reqs) :
                        call[c].reqs[i].method = "generatePublicKey"
        /\ call[c].name = "login"
              => /\ SentTo(c, "createPersonalAccessToken") = {}
                 /\ \A i \in SentTo(c, "generatePublicKey") : i = 1
        /\ call[c].name = "create_personal_access_token"
              => \A i \in 1..Len(call[c].reqs) :
                     call[c].reqs[i].method = "createPersonalAccessToken"
        /\ Len(call[c].reqs) = Cardinality({f \in {"k", "l", "p"} :
                                   \/ f = "k" /\ call[c].keyResp # NoResponse
                                   \/ f = "l" /\ call[c].loginResp # NoResponse
                                   \/ f = "p" /\ call[c].patResp # NoResponse})
                               + (IF pc[c] \in {"gk_wait", "l_wait", "p_wait"} THEN 1 ELSE 0)
        /\ \A r \in Received(c) :
               FailedAnswer(r)
                   => /\ Done(c)
                      /\ call[c].out.tag = "raise"
                      /\ call[c].out.exc \in {"ConnectionError", "HTTPError"}
                      /\ call[c].out.status = r.status
        /\ ( /\ call[c].keyResp # NoResponse
             /\ ~FailedAnswer(call[c].keyResp)
             /\ ~GoodKeyBody(call[c].keyResp.body)
             /\ Done(c) )
              => /\ ProtocolError(call[c].out)
                 /\ Len(call[c].reqs) = 1

\* a login whose key fetch was answered 500 ended with that failure, having
\* sent the one request
C11_Witness ==
    \E c \in active :
        /\ Done(c)
        /\ call[c].name = "login"
        /\ call[c].keyResp.status = 500
        /\ Len(call[c].reqs) = 1
        /\ call[c].out = Raise("HTTPError", "", 500)

\* the failure of create_personal_access_token on a response without a
\* refreshToken
UnexpectedResponse(o) ==
    /\ o.tag = "raise"
    /\ o.exc = "RuntimeError"
    /\ o.msg = "Unexpected response"

(***************************************************************************)
(* C12: a create_personal_access_token whose response is 2xx fails with    *)
(* the protocol error of this call (the RuntimeError "Unexpected           *)
(* response") and returns no token when the body has no result, no         *)
(* result.refreshToken or an empty one; when result.refreshToken is        *)
(* non-empty the call returns exactly that value.                          *)
(***************************************************************************)
C12_RefreshTokenRequired ==
    \A c \in active :
        ( /\ Done(c)
          /\ call[c].name = "create_personal_access_token"
          /\ Is2xx(call[c].patResp.status) )
        => LET b == call[c].patResp.body IN
           /\ (~b.result \/ b.refreshToken = Missing \/ b.refreshToken = Str(<<>>))
                 => UnexpectedResponse(call[c].out)
           /\ (b.result /\ b.refreshToken \in Tokens)
                 => call[c].out = Return(<<b.refreshToken>>)

\* after a returned login, a token call answered 200 with an empty
\* refreshToken failed
C12_Witness ==
    \E c \in active :
        /\ Done(c)
        /\ call[c].name = "create_personal_access_token"
        /\ call[c].prev \in {"first login returned", "login returned"}
        /\ call[c].patResp.status = 200
        /\ call[c].patResp.body.result
        /\ call[c].patResp.body.refreshToken = Str(<<>>)
        /\ UnexpectedResponse(call[c].out)

(***************************************************************************)
(* C13, as claimed: a create_personal_access_token call, whether it        *)
(* succeeds or fails, leaves key_id, n, e and the held session id and      *)
(* anti-forgery token unchanged, and a create_personal_access_token call   *)
(* that follows one that was admitted (sent its request) is admitted too.  *)
(***************************************************************************)
C13_Original_PatChangesNothing ==
    [][\A c \in active :
          /\ call'[c].name = "create_personal_access_token"
                => /\ <<key_id, n, e>>' = <<key_id, n, e>>
                   /\ jar' = jar
          /\ ( /\ pc[c] = "idle"
               /\ call[c].name = "create_personal_access_token"
               /\ call[c].reqs # <<>>
               /\ call'[c] # call[c]
               /\ call'[c].name = "create_personal_access_token" )
                => /\ call'[c].reqs # <<>>
                   /\ ~NotAuthenticated(call'[c].out)]_vars

(***************************************************************************)
(* C13, amended: a create_personal_access_token call, whether it succeeds  *)
(* or fails, leaves key_id, n and e unchanged.  The session id and the     *)
(* anti-forgery token are held as cookies of the session, which follows    *)
(* the response to the call: they are unchanged when the call sends        *)
(* nothing or gets no answer, and otherwise the anti-forgery cookie is     *)
(* either unchanged or replaced by the value the response set (possibly    *)
(* the empty one).  A further call is admitted (sends its request instead  *)
(* of failing with NotAuthenticated) exactly when the session then holds a *)
(* non-empty anti-forgery cookie.                                          *)
(***************************************************************************)
C13_PatFollowsResponseCookies ==
    [][\A c \in active :
          call'[c].name = "create_personal_access_token"
          => /\ <<key_id, n, e>>' = <<key_id, n, e>>
             /\ loggedIn' = loggedIn
             /\ (pc[c] = "idle" \/ call'[c].patResp.status = NoAnswer) => jar' = jar
             /\ \/ jar' = jar
                \/ /\ jar'.wg = jar.wg
                   /\ jar'.xsrf \in SetCookie("x") \ {Missing}
             /\ (pc[c] = "idle" /\ call'[c] # call[c])
                   => IF Truthy(jar.xsrf)
                      THEN /\ pc'[c] = "p_wait"
                           /\ Len(call'[c].reqs) = 1
                           /\ call'[c].reqs[1].xsrfHeader = jar.xsrf
                      ELSE /\ pc'[c] = "idle"
                           /\ call'[c].reqs = <<>>
                           /\ NotAuthenticated(call'[c].out)]_vars

\* a token call that was admitted returned a token, and its response
\* replaced the anti-forgery cookie the request had carried
C13_Witness ==
    \E c \in active :
        /\ Done(c)
        /\ call[c].name = "create_personal_access_token"
        /\ call[c].prev \in {"first login returned", "login returned"}
        /\ call[c].reqs # <<>>
        /\ call[c].out.tag = "return"
        /\ Truthy(jar.xsrf)
        /\ jar.xsrf # call[c].reqs[1].xsrfHeader

(***************************************************************************)
(* C14, as claimed: the anti-forgery header is sent only after             *)
(* authentication.  No generatePublicKey request and no login request      *)
(* carries X-XSRF-TOKEN, whatever the session holds; every                 *)
(* createPersonalAccessToken request carries it, with the anti-forgery     *)
(* token the session holds when it is sent, and is sent only on an         *)
(* instance on which a login has returned.                                 *)
(***************************************************************************)
C14_XsrfHeaderOnlyAfterAuthentication ==
    \A c \in active :
        \A i \in 1..Len(call[c].reqs) :
            LET r == call[c].reqs[i] IN
            /\ r.method \in {"generatePublicKey", "login"} => r.xsrfHeader = Missing
            /\ r.method = "createPersonalAccessToken"
                  => /\ r.xsrfHeader # Missing
                     /\ Truthy(r.xsrfHeader)
                     /\ pc[c] = "p_wait" => r.xsrfHeader = jar.xsrf
            /\ r.xsrfHeader # Missing => loggedIn

\* caller c's call has got past the encryption: encrypt_password has ended,
\* or login has left its encrypt_password statement
PastEncryption(c) ==
    \/ call[c].name = "encrypt_password" /\ Done(c)
    \/ call[c].name = "login" /\ pc[c] \in {"l_send", "l_wait", "idle"}

(***************************************************************************)
(* C15: encryption fails fast on a partially populated key.  When the      *)
(* held modulus or exponent is None or empty, a call that has got to the   *)
(* encryption (or, for login, to the failure of the fetch before it) has   *)
(* ended in failure without a ciphertext, and a login has sent no login    *)
(* request; an encrypt_password on a None field fails with the error of    *)
(* its test for the key ("Public key not initialized" / "not generated"),  *)
(* and on an empty field with the ValueError of int("", 16).               *)
(***************************************************************************)
C15_EncryptionFailsFastWithoutKey ==
    \A c \in active :
        ( /\ PastEncryption(c)
          /\ \/ n \in {None, Str(<<>>)}
             \/ e \in {None, Str(<<>>)} )
        => /\ Done(c)
           /\ call[c].out.tag = "raise"
           /\ call[c].encrypted_hex = NoCipher
           /\ SentTo(c, "login") = {}
           /\ (call[c].name = "encrypt_password" /\ (n = None \/ e = None))
                 => call[c].out =
                        IF impl = "pat"
                        THEN Raise("RuntimeError", "Public key not initialized", 0)
                        ELSE Raise("ValueError", "Public key not generated", 0)
           /\ ( /\ call[c].name = "encrypt_password"
                /\ n # None /\ e # None
                /\ n = Str(<<>>) )
                 => call[c].out.exc = "ValueError"

\* a login on an instance holding a modulus and an empty exponent failed
\* before any request
C15_Witness ==
    \E c \in active :
        /\ Done(c)
        /\ call[c].name = "login"
        /\ n = Str(ToHex(KeyTable[1].N))
        /\ e = Str(<<>>)
        /\ call[c].out.tag = "raise"
        /\ call[c].reqs = <<>>

\* the text or number x denotes k in hexadecimal text or as a native integer
HexOrInt(x, k) == x = Str(ToHex(k)) \/ x = Int_(k)

(***************************************************************************)
(* C16, as claimed: with a modulus and an exponent held each as base-16    *)
(* text or as a native integer, encryption is done under exactly that      *)
(* modulus and exponent (and a login goes on to send its request); with a  *)
(* modulus or an exponent held as decimal text, the call fails with the    *)
(* format error (ValueError) and no ciphertext.  For both implementations. *)
(***************************************************************************)
C16_Original_FormatTolerantAndStrict ==
    \A c \in active :
        PastEncryption(c)
        => /\ (HexOrInt(n, KeyTable[1].N) /\ HexOrInt(e, KeyTable[1].E))
                 => /\ call[c].encrypted_hex =
                           Cipher(KeyTable[1].N, KeyTable[1].E, call[c].password)
                    /\ (call[c].name = "login" /\ pc[c] # "l_send") => SentTo(c, "login") # {}
           /\ (n = Str(ToDec(KeyTable[1].N)) \/ e = Str(ToDec(KeyTable[1].E)))
                 => /\ Done(c)
                    /\ call[c].out.tag = "raise"
                    /\ call[c].out.exc = "ValueError"
                    /\ \/ call[c].out.msg = "int(n)"
                       \/ call[c].out.msg = "int(e)"
                    /\ call[c].encrypted_hex = NoCipher

(***************************************************************************)
(* C16, amended: make_me_a_friggin_pat.py accepts each of modulus and      *)
(* exponent as base-16 text or as a native integer and encrypts under the  *)
(* same numbers either way (so an exponent sent as a JSON number still     *)
(* lets login send its request); vizportal_auth.py accepts base-16 text    *)
(* only and fails with TypeError on a native integer.  Decimal text is not *)
(* rejected: text of decimal digits is read as base 16, so the encryption  *)
(* is done under the numbers those digits denote in base 16.  Only text    *)
(* that is empty or has a character that is no hexadecimal digit fails,    *)
(* with ValueError and no ciphertext.                                      *)
(***************************************************************************)
C16_KeyFieldParsing ==
    \A c \in active :
        PastEncryption(c)
        => /\ ( /\ HexOrInt(n, KeyTable[1].N)
                /\ HexOrInt(e, KeyTable[1].E)
                /\ impl = "pat" \/ (n.t = "str" /\ e.t = "str") )
                 => /\ call[c].encrypted_hex =
                           Cipher(KeyTable[1].N, KeyTable[1].E, call[c].password)
                    /\ (call[c].name = "login" /\ pc[c] # "l_send") => SentTo(c, "login") # {}
           /\ ( /\ impl = "auth"
                /\ n # None /\ e # None
                /\ n.t = "int" \/ (HexOrInt(n, KeyTable[1].N) /\ e.t = "int") )
                 => /\ Done(c)
                    /\ call[c].out.tag = "raise"
                    /\ call[c].out.exc = "TypeError"
                    /\ call[c].encrypted_hex = NoCipher
                    /\ SentTo(c, "login") = {}
           /\ (n = Str(ToDec(KeyTable[1].N)) /\ e = Str(ToDec(KeyTable[1].E)))
                 => /\ call[c].encrypted_hex =
                           Cipher(HexValue(ToDec(KeyTable[1].N)),
                                  HexValue(ToDec(KeyTable[1].E)), call[c].password)
                    /\ call[c].encrypted_hex.mod # KeyTable[1].N
                    /\ (call[c].name = "login" /\ pc[c] # "l_send") => SentTo(c, "login") # {}
           /\ ( /\ n.t = "str" /\ e.t = "str"
                /\ \/ ~IsHexText(n.s)
                   \/ ~IsHexText(e.s) )
                 => /\ Done(c)
                    /\ call[c].out.tag = "raise"
                    /\ call[c].out.exc = "ValueError"
                    /\ call[c].encrypted_hex = NoCipher
                    /\ SentTo(c, "login") = {}

\* make_me_a_friggin_pat.py: a login on an instance holding the modulus as
\* base-16 text and the exponent as a native integer sent its login request
C16_Witness ==
    \E c \in active :
        /\ impl = "pat"
        /\ call[c].name = "login"
        /\ n = Str(ToHex(KeyTable[1].N))
        /\ e = Int_(KeyTable[1].E)
        /\ SentTo(c, "login") # {}
        /\ call[c].encrypted_hex.exp = KeyTable[1].E

\* The failure situation caller c's ended call is in, told by what the call
\* met and not by its outcome: a login whose 2xx response left the session
\* without one of the two cookies; a create_personal_access_token that sent
\* nothing; one whose 2xx response had no refreshToken; an encrypt_password
\* on an instance without modulus or exponent.
Situation(c) ==
    IF ~Done(c) THEN "none"
    ELSE IF /\ call[c].name = "login"
            /\ Is2xx(call[c].loginResp.status)
            /\ ~(Truthy(jar.wg) /\ Truthy(jar.xsrf))
         THEN "IncompleteSession"
    ELSE IF call[c].name = "create_personal_access_token" /\ call[c].reqs = <<>>
         THEN "NotAuthenticated"
    ELSE IF /\ call[c].name = "create_personal_access_token"
            /\ Is2xx(call[c].patResp.status)
            /\ \/ ~call[c].patResp.body.result
               \/ call[c].patResp.body.refreshToken \in {Missing, Str(<<>>)}
         THEN "ProtocolError"
    ELSE IF call[c].name = "encrypt_password" /\ (n = None \/ e = None)
         THEN "NoKey"
    ELSE "none"

(***************************************************************************)
(* C17, as claimed: the failures of the four situations reach the caller   *)
(* (the call ends by raising) with pairwise different error kinds: when a  *)
(* call that ended in one situation is followed by a call that ends in     *)
(* another, the two outcomes differ in their exception class.              *)
(***************************************************************************)
C17_Original_DistinctErrorKinds ==
    [][\A c \in active :
          /\ Situation(c) # "none" => call[c].out.tag = "raise"
          /\ ( /\ Situation(c) # "none"
               /\ Situation(c)' # "none"
               /\ Situation(c)' # Situation(c) )
                => call[c].out.exc # call'[c].out.exc]_vars

(***************************************************************************)
(* C17, amended: none of the four failures is swallowed: each ends the     *)
(* call by raising.  They are not of different kinds: all are raised as    *)
(* RuntimeError (in vizportal_auth.py the encryption without key material  *)
(* as ValueError), so outcomes of two different situations are of the same *)
(* class in make_me_a_friggin_pat.py and are told apart by their message   *)
(* only, which is different for each situation.                            *)
(***************************************************************************)
C17_FailuresRaisedToldApartByMessage ==
    [][\A c \in active :
          /\ Situation(c) # "none"
                => /\ call[c].out.tag = "raise"
                   /\ call[c].out.exc =
                          IF Situation(c) = "NoKey" /\ impl = "auth"
                          THEN "ValueError" ELSE "RuntimeError"
                   /\ call[c].out.msg =
                          CASE Situation(c) = "IncompleteSession" ->
                                   "Login succeeded but tokens not found in cookies"
                            [] Situation(c) = "NotAuthenticated" ->
                                   "Missing XSRF-TOKEN; please login first"
                            [] Situation(c) = "ProtocolError" -> "Unexpected response"
                            [] Situation(c) = "NoKey" ->
                                   IF impl = "pat" THEN "Public key not initialized"
                                   ELSE "Public key not generated"
          /\ ( /\ Situation(c) # "none"
               /\ Situation(c)' # "none"
               /\ Situation(c)' # Situation(c) )
                => /\ call[c].out.msg # call'[c].out.msg
                   /\ impl = "pat" => call[c].out.exc = call'[c].out.exc]_vars

\* make_me_a_friggin_pat.py: after a call that was not the first, an
\* encrypt_password without key material failed with RuntimeError
C17_Witness ==
    \E c \in active :
        /\ impl = "pat"
        /\ Situation(c) = "NoKey"
        /\ call[c].prev = "other"
        /\ ~Truthy(jar.xsrf)
        /\ call[c].out.exc = "RuntimeError"

(***************************************************************************)
(* C19, as claimed: the two implementations are equivalent on the          *)
(* handshake.  The two classes differ in login's test for a key fetch and  *)
(* in encrypt_password only, so they send the same requests and give the   *)
(* same outcomes exactly when, from every state reached with key fields    *)
(* that came as hexadecimal text, every step login takes in one            *)
(* implementation is the step it takes in the other: the same next         *)
(* statement, the same requests so far, the same outcome.                  *)
(***************************************************************************)
C19_ImplementationsEquivalent ==
    [][\A c \in active :
          (n.t # "int" /\ e.t # "int")
          => /\ \A u \in Usernames, p \in Passwords :
                    BeginLoginAs("pat", c, u, p) <=> BeginLoginAs("auth", c, u, p)
             /\ EncryptAs("pat", c) <=> EncryptAs("auth", c)]_vars

\* how many of its requests caller c's call has got the answer to
Answered(c) ==
    (IF call[c].keyResp # NoResponse THEN 1 ELSE 0)
    + (IF call[c].loginResp # NoResponse THEN 1 ELSE 0)
    + (IF call[c].patResp # NoResponse THEN 1 ELSE 0)

(***************************************************************************)
(* C20: the handshake is strictly sequential for a single caller.  At most *)
(* one request is outstanding at any time, and only while the call waits   *)
(* for it.  Within a login that made a fetch, the login request was sent   *)
(* after the generatePublicKey request, when its response had been         *)
(* received and key_id, n, e stored from it, and carries that keyId.  The  *)
(* cookies are read after the login response only: a login that returned   *)
(* or failed with IncompleteSession has received it, and a returned login  *)
(* returns the cookies the session holds after it.                         *)
(***************************************************************************)
C20_StrictlySequential ==
    \A c \in active :
        /\ Len(call[c].reqs) - Answered(c) =
               (IF pc[c] \in {"gk_wait", "l_wait", "p_wait"} THEN 1 ELSE 0)
        /\ \A d \in active \ {c} :
               ~(pc[c] \in {"gk_wait", "l_wait", "p_wait"}
                 /\ pc[d] \in {"gk_wait", "l_wait", "p_wait"})
        /\ ( /\ call[c].name = "login"
             /\ SentTo(c, "generatePublicKey") # {}
             /\ SentTo(c, "login") # {} )
              => /\ call[c].reqs[1].method = "generatePublicKey"
                 /\ call[c].reqs[2].method = "login"
                 /\ call[c].keyResp.status = 200
                 /\ GoodKeyBody(call[c].keyResp.body)
                 /\ key_id = call[c].keyResp.body.keyId
                 /\ n = call[c].keyResp.body.n
                 /\ e = call[c].keyResp.body.e
                 /\ call[c].reqs[2].keyId = call[c].keyResp.body.keyId
        /\ (call[c].name = "login" /\ pc[c] \in {"l_enc", "l_send"})
              => call[c].loginResp = NoResponse
        /\ (call[c].name = "login" /\ pc[c] # "idle") => call[c].out = Pending
        /\ ( /\ call[c].name = "login"
             /\ call[c].out.tag = "return" \/ IncompleteSession(call[c].out) )
              => /\ call[c].loginResp # NoResponse
                 /\ call[c].loginResp.status # NoAnswer
                 /\ call[c].out.tag = "return"
                       => call[c].out.val = <<jar.wg, jar.xsrf>>

\* a login that fetched its key sent both requests and returned
C20_Witness ==
    \E c \in active :
        /\ Done(c)
        /\ call[c].name = "login"
        /\ Len(call[c].reqs) = 2
        /\ call[c].keyResp.status = 200
        /\ call[c].loginResp.status = 200
        /\ call[c].out.tag = "return"

(***************************************************************************)
(* C21.  Concurrent logins.                                                *)
(***************************************************************************)
\* the login request names one key and carries a password encrypted under
\* another (or names no key of the server at all)
WrongKeyNamed(req) ==
    /\ req.method = "login"
    /\ ~ \E k \in Keys :
            /\ req.keyId = Str(KeyTable[k].keyId)
            /\ req.encryptedPassword.mod = KeyTable[k].N
            /\ req.encryptedPassword.exp = KeyTable[k].E

SentWrongKey(c) ==
    \E i \in 1..Len(call[c].reqs) : WrongKeyNamed(call[c].reqs[i])

\* C21: among callers that only run login, a login request whose keyId is
\* not that of the key (modulus, exponent) its password was encrypted under
\* is sent only on an instance that two callers share, and then only when
\* both callers' logins fetched a key; a caller with its own instance never
\* sends one.
C21_WrongKeyOnlyOnSharedInstance ==
    \A c \in active :
        SentWrongKey(c) =>
            /\ Cardinality(active) > 1
            /\ \A d \in active : SentTo(d, "generatePublicKey") # {}

\* two callers share the instance, both answers to the key fetches were
\* complete, and one caller's login request names the other caller's key
C21_Witness ==
    /\ active = {1, 2}
    /\ \A d \in active :
          /\ call[d].name = "login"
          /\ call[d].keyResp.status = 200
          /\ GoodKeyBody(call[d].keyResp.body)
    /\ \E c \in active : SentWrongKey(c)

(***************************************************************************)
(* C22.  Termination.                                                      *)
(***************************************************************************)
Ended(c) == Done(c) /\ call[c].out.tag \in {"return", "raise"}

\* C22: given that every request sent is answered or fails in the transport,
\* every call that has begun ends, with its return value or with one error:
\* a running call has no outcome yet, a call that is over has exactly one,
\* and a call that is running (generate_public_key, login and
\* create_personal_access_token are the calls that take more than one step)
\* is eventually over.
C22_EveryCallEndsWithOneOutcome ==
    /\ [](\A c \in active :
            /\ pc[c] # "idle" => call[c].out = Pending
            /\ Done(c) => Ended(c))
    /\ (\E c \in active : pc[c] # "idle") ~> (\A c \in active : Ended(c))

\* a login that fetched its key, sent its request and got its answer is
\* over, after an earlier call on the same instance
C22_Witness ==
    \E c \in active :
        /\ Ended(c)
        /\ call[c].name = "login"
        /\ call[c].prev # "first"
        /\ SentTo(c, "generatePublicKey") # {}
        /\ SentTo(c, "login") # {}
        /\ call[c].loginResp # NoResponse


====
